---- MODULE Spec2Model ----
(***************************************************************************)
(* Geo-GA-Planner: the adaptive track placement of 02_path_optimization.py *)
(* and the metric arithmetic of 03_performance_comparison.py; the run of   *)
(* each script with its import fallback and its plot style; the baseline   *)
(* metrics; panel (a) of generate_figures.plot_figure2.                    *)
(*                                                                         *)
(* The scripts compute in IEEE doubles.  The model computes in fixed       *)
(* point: every quantity is an integer number of units, and every          *)
(* multiplication/division rounds to the unit (\div), as every double      *)
(* operation rounds to 53 bits.                                            *)
(*   positions (NM)   : 1 unit = 1e-6 NM        (PosScale units per NM)    *)
(*   depths, swaths   : 1 unit = 1 cm           (DepthScale units per m)   *)
(*   spacing factor   : 1 unit = 0.01           (FactorScale units per 1)  *)
(*   metric record    : 1 unit = 0.001          (MetricScale units per 1)  *)
(*   improvements (%) : 1 unit = 0.1 %          (ImprovementScale)         *)
(***************************************************************************)
EXTENDS Integers, Sequences, FiniteSets

VARIABLES
    \* ---- 02_path_optimization.py: optimize_track_positions ----
    X,                  \* meshgrid of scan-axis coordinates, X[row][col] (NM)
    bathymetry_data,    \* depth grid, bathymetry_data[row][col] (m)
    region_width_nm,    \* argument region_width_nm
    spacing_factor,     \* argument spacing_factor
    pc,                 \* position inside optimize_track_positions
    current_x,          \* the cursor
    track_positions,    \* the list being built / returned
    \* ---- calculate_swath_width applied to two depths ----
    depth,              \* <<d1, d2>>: the two depth arguments
    beam_angle_deg,     \* the beam_angle_deg argument of both calls
    swath_width,        \* <<calculate_swath_width(d1), calculate_swath_width(d2)>> once called
    \* ---- 03_performance_comparison.py: calculate_improvements ----
    hybrid,             \* PerformanceMetrics argument
    baseline,           \* PerformanceMetrics argument
    number_type,        \* "python" or "numpy": the type of the numbers in the records
    improvements,       \* the returned dict
    pc3,                \* position of the call to calculate_improvements
    \* ---- one run of a script as __main__ ----
    script,             \* "01", "02", "03" or "gf" (generate_figures.py)
    importable,         \* the modules the import system can find
    import_failed,      \* whether the try block of the script raised ImportError
    names,              \* module globals: helper name -> "undefined", "shared", "local"
    rc_initial,         \* plt.rcParams when the interpreter starts
    rcParams,           \* plt.rcParams
    generated,          \* what generate_bathymetry_data returned
    swath_out,          \* <<W_min, W_avg>> of calculate_baseline_metrics
    events,             \* the style writes and renderings so far, in order
    pcS,                \* index of the next step of the script, or NameError
    \* ---- calculate_baseline_metrics ----
    region_height_nm,   \* its third argument
    baseline_nonfinite, \* the attributes of its result that are inf or nan
    warnings,           \* the RuntimeWarnings numpy issued
    pcB,                \* position of the call to calculate_baseline_metrics
    \* ---- generate_figures.plot_figure2, panel (a) ----
    Z_m,                \* the rows of the depth grid that the panel reads
    gap_patches,        \* the red rectangles added, as <<lower, upper>> edges
    swath_patches,      \* the grey swath rectangles added
    fig_i,              \* the loop variable i, counted from 1
    pcF,                \* position in the panel
    \* ---- a caller of optimize_track_positions and calculate_coverage_metrics ----
    Y,                  \* the Y array passed with X
    coverage,           \* what calculate_coverage_metrics returned
    first_call,         \* the arguments and results of the caller's first call
    call_no             \* 1 or 2: which call of the caller is under way

vars == <<X, bathymetry_data, region_width_nm, spacing_factor, pc, current_x,
          track_positions, depth, beam_angle_deg, swath_width,
          hybrid, baseline, number_type, improvements, pc3,
          script, importable, import_failed, names, rc_initial, rcParams,
          generated, swath_out, events, pcS,
          region_height_nm, baseline_nonfinite, warnings, pcB,
          Z_m, gap_patches, swath_patches, fig_i, pcF,
          Y, coverage, first_call, call_no>>

placementVars == <<X, bathymetry_data, region_width_nm, spacing_factor, pc,
                   current_x, track_positions>>
swathVars == <<depth, beam_angle_deg, swath_width>>
improveVars == <<hybrid, baseline, number_type, improvements, pc3>>
scriptVars == <<script, importable, import_failed, names, rc_initial, rcParams,
                generated, swath_out, events, pcS>>
\* the variables of the parts added after the first three
baselineVars == <<region_height_nm, baseline_nonfinite, warnings, pcB>>
figureVars == <<Z_m, gap_patches, swath_patches, fig_i, pcF>>
callerVars == <<Y, coverage, first_call, call_no>>
extraVars == <<scriptVars, baselineVars, figureVars, callerVars>>

----------------------------------------------------------------------------
(* Units *)

PosScale == 1000 * 1000
DepthScale == 10 * 10
FactorScale == 10 * 10
MetricScale == 10 * 10 * 10
ImprovementScale == MetricScale \div 100

\* NM_TO_M = 1852 (metres per nautical mile)
NM_TO_M == 1852

\* the literal 1e-6 (NM) in the loop condition: exactly one position unit
Tolerance == PosScale \div (1000 * 1000)

\* default beam_angle_deg of calculate_swath_width
DefaultBeamAngle == 60

\* default spacing_factor of optimize_track_positions: 1.02
DefaultSpacingFactor == 102

----------------------------------------------------------------------------
(* Bounds of the model *)

\* number of grid columns (nx)
NumCols == 3
\* regular depths are DepthStep, 2*DepthStep, ..., MaxDepthLevel*DepthStep
MaxDepthLevel == 2
\* the placement loop is cut off when the list has this many entries
MaxTracks == 90
\* calculate_swath_width is applied to every depth 0 .. MaxSwathDepth (cm)
MaxSwathDepth == 8
\* path lengths are 0, 20, 40, ..., 20 * MaxLengthLevel NM
MaxLengthLevel == 10
\* overlap percentages are 0, 5, ..., 5 * MaxOverlapLevel percent
MaxOverlapLevel == 4

\* 25 m, the depth_shallow of generate_bathymetry_data, in depth units
DepthStep == 25 * DepthScale
\* the smallest positive depth the model represents (1 cm)
TinyDepth == DepthScale \div DepthScale

Depths == {0, TinyDepth} \cup {k * DepthStep : k \in 1..MaxDepthLevel}
RegularDepths == {k * DepthStep : k \in 1..MaxDepthLevel}

\* spacing factors: 0.01 (the smallest positive one), 1.00, and the default 1.02
Factors == {FactorScale \div FactorScale, FactorScale, DefaultSpacingFactor}

----------------------------------------------------------------------------
(* np.tan(np.deg2rad(beam_angle_deg)) as a rational TanNum/TanDen:          *)
(* tan 60 = sqrt(3) ~ 1351/780 (error 5e-7), tan 30 ~ 780/1351, tan 45 = 1  *)

BeamAngles == {30, 45, 60}

TanNum(angle) == CASE angle = 30 -> 780
                   [] angle = 45 -> 1
                   [] angle = 60 -> 1351

TanDen(angle) == CASE angle = 30 -> 1351
                   [] angle = 45 -> 1
                   [] angle = 60 -> 780

\* mutant: the sign of the depth is lost
calculate_swath_width_negated(d, angle) == (2 * (0 - d) * TanNum(angle)) \div TanDen(angle)

\* return 2 * depth * np.tan(np.deg2rad(beam_angle_deg))      (depth units in, depth units out)
calculate_swath_width(d, angle) == (2 * d * TanNum(angle)) \div TanDen(angle)

----------------------------------------------------------------------------
(* numpy helpers *)

\* np.linspace(0, stop, num): num points from 0 to stop inclusive
linspace(stop, num) == [j \in 1..num |-> (stop * (j - 1)) \div (num - 1)]

\* np.interp(x, xp, fp): piecewise linear, clamped to fp[first] / fp[last] outside xp
interp(x, xp, fp) ==
    LET n == Len(xp) IN
    IF x <= xp[1] THEN fp[1]
    ELSE IF x >= xp[n] THEN fp[n]
    ELSE LET i == CHOOSE k \in 1..(n - 1) : xp[k] <= x /\ x < xp[k + 1]
         IN  fp[i] + ((x - xp[i]) * (fp[i + 1] - fp[i])) \div (xp[i + 1] - xp[i])

----------------------------------------------------------------------------
(* optimize_track_positions *)

\* mutant: the factor 0.5 is dropped, the first line starts a whole swath inward
HalfSwathNm_whole(swath_m) == (swath_m * (PosScale \div DepthScale)) \div NM_TO_M

\* 0.5 * first_swath_m / NM_TO_M
HalfSwathNm(swath_m) == (swath_m * (PosScale \div DepthScale)) \div (2 * NM_TO_M)

\* mutant: the swath is divided by the spacing factor instead of multiplied
StepNm_divided(swath_m, factor) ==
    ((swath_m * FactorScale * (PosScale \div (DepthScale * FactorScale))) \div factor) \div NM_TO_M

\* mutant: the step is rounded up to at least one position unit
StepNm_atleast1(swath_m, factor) ==
    (swath_m * factor * (PosScale \div (DepthScale * FactorScale))) \div NM_TO_M + 1

\* (swath_width_m * spacing_factor) / NM_TO_M
StepNm(swath_m, factor) ==
    (swath_m * factor * (PosScale \div (DepthScale * FactorScale))) \div NM_TO_M

\* x_coords = X[0, :]
x_coords == X[1]

\* mutant: the depth is looked up along the opposite edge of the region
depth_top_far_edge(x) == interp(x, x_coords, bathymetry_data[Len(bathymetry_data)])

\* depth_top = float(np.interp(current_x, x_coords, bathymetry_data[0]))
depth_top(x) == interp(x, x_coords, bathymetry_data[1])

\* mutant: the tolerance is left out
LoopCondition_strict == current_x < region_width_nm

\* mutant: the tolerance is 1e-1 instead of 1e-6
LoopCondition_wide == current_x < region_width_nm + Tolerance * 100000

\* while current_x < region_width_nm + 1e-6
LoopCondition == current_x < region_width_nm + Tolerance

\* mutant: the first cursor is appended before the loop as well as inside it
Start_prerecorded ==
    /\ pc = "call"
    /\ current_x' = HalfSwathNm(calculate_swath_width(bathymetry_data[1][1], DefaultBeamAngle))
    /\ track_positions' = <<current_x'>>
    /\ pc' = "loop"
    /\ UNCHANGED <<X, bathymetry_data, region_width_nm, spacing_factor>>
    /\ UNCHANGED <<swathVars, improveVars, extraVars>>

\* lines 84-93: first_depth, first_swath_m, current_x, x_coords
Start ==
    /\ pc = "call"
    /\ current_x' = HalfSwathNm(calculate_swath_width(bathymetry_data[1][1], DefaultBeamAngle))
    /\ track_positions' = <<>>
    /\ pc' = "loop"
    /\ UNCHANGED <<X, bathymetry_data, region_width_nm, spacing_factor>>
    /\ UNCHANGED <<swathVars, improveVars, extraVars>>

\* lines 95-101: one iteration of the while loop
LoopIter ==
    /\ pc = "loop"
    /\ LoopCondition
    /\ Len(track_positions) < MaxTracks
    /\ track_positions' = Append(track_positions, current_x)
    /\ current_x' = current_x
                    + StepNm(calculate_swath_width(depth_top(current_x), DefaultBeamAngle),
                             spacing_factor)
    /\ UNCHANGED <<X, bathymetry_data, region_width_nm, spacing_factor, pc>>
    /\ UNCHANGED <<swathVars, improveVars, extraVars>>

\* lines 95, 103: the loop condition fails, return track_positions
LoopExit ==
    /\ pc = "loop"
    /\ ~LoopCondition
    /\ pc' = "done"
    /\ UNCHANGED <<X, bathymetry_data, region_width_nm, spacing_factor,
                   current_x, track_positions>>
    /\ UNCHANGED <<swathVars, improveVars, extraVars>>

----------------------------------------------------------------------------
(* Inputs of the placement *)

\* 0.2 NM
SmallWidth == PosScale \div 5
\* the third cursor (half + 2 * step) of a constant 25 m grid at factor 1.02
LandingWidth ==
    HalfSwathNm(calculate_swath_width(DepthStep, DefaultBeamAngle))
    + 2 * StepNm(calculate_swath_width(DepthStep, DefaultBeamAngle), DefaultSpacingFactor)
\* region_width_nm = 4 of generate_bathymetry_data
RegionWidthNm == 4 * PosScale

Rows == [1..NumCols -> Depths]

\* row 1 of the grid: a copy of row 0, or the deepest regular depth everywhere
SecondRows(row0) == {row0, [j \in 1..NumCols |-> MaxDepthLevel * DepthStep]}

\* X, Y = np.meshgrid(x, y) with x = np.linspace(0, region_width_nm, nx)
meshgridX(width) == <<linspace(width, NumCols), linspace(width, NumCols)>>

\* arbitrary small grids over a narrow region
GeneralInputs ==
    /\ region_width_nm \in {SmallWidth, LandingWidth}
    /\ spacing_factor \in Factors
    /\ \E row0 \in Rows : \E row1 \in SecondRows(row0) :
          bathymetry_data = <<row0, row1>>

\* the 4 NM region with a constant 25 m reference edge
ScenarioInputs ==
    /\ region_width_nm = RegionWidthNm
    /\ spacing_factor \in {FactorScale, DefaultSpacingFactor}
    /\ \E row1 \in SecondRows([j \in 1..NumCols |-> DepthStep]) :
          bathymetry_data = <<[j \in 1..NumCols |-> DepthStep], row1>>

IdlePlacement ==
    /\ X = <<>>
    /\ bathymetry_data = <<>>
    /\ region_width_nm = 0
    /\ spacing_factor = 0
    /\ pc = "idle"
    /\ current_x = 0
    /\ track_positions = <<>>

IdleSwath ==
    /\ depth = <<>>
    /\ beam_angle_deg = 0
    /\ swath_width = <<>>

IdleImprove ==
    /\ hybrid = <<>>
    /\ baseline = <<>>
    /\ number_type = "none"
    /\ improvements = <<>>
    /\ pc3 = "idle"

IdleScript ==
    /\ script = "none"
    /\ importable = {}
    /\ import_failed = FALSE
    /\ names = <<>>
    /\ rc_initial = <<>>
    /\ rcParams = <<>>
    /\ generated = <<>>
    /\ swath_out = <<>>
    /\ events = <<>>
    /\ pcS = 0

IdleBaseline ==
    /\ region_height_nm = 0
    /\ baseline_nonfinite = <<>>
    /\ warnings = {}
    /\ pcB = "idle"

IdleFigure ==
    /\ Z_m = <<>>
    /\ gap_patches = <<>>
    /\ swath_patches = <<>>
    /\ fig_i = 0
    /\ pcF = "idle"

IdleCaller ==
    /\ Y = <<>>
    /\ coverage = <<>>
    /\ first_call = <<>>
    /\ call_no = 0

IdleExtra == IdleScript /\ IdleBaseline /\ IdleFigure /\ IdleCaller

Init ==
    /\ (GeneralInputs \/ ScenarioInputs)
    /\ X = meshgridX(region_width_nm)
    /\ pc = "call"
    /\ current_x = 0
    /\ track_positions = <<>>
    /\ IdleSwath
    /\ IdleImprove
    /\ IdleExtra

Next == Start \/ LoopIter \/ LoopExit

Spec == Init /\ [][Next]_vars

----------------------------------------------------------------------------
(* calculate_swath_width applied to a pair of depths at one beam angle *)

SwathDepths == (0..MaxSwathDepth) \cup RegularDepths

\* w1 = calculate_swath_width(d1, angle); w2 = calculate_swath_width(d2, angle)
CallSwathWidth ==
    /\ swath_width = <<>>
    /\ depth # <<>>
    /\ swath_width' = <<calculate_swath_width(depth[1], beam_angle_deg),
                        calculate_swath_width(depth[2], beam_angle_deg)>>
    /\ UNCHANGED <<depth, beam_angle_deg>>
    /\ UNCHANGED <<placementVars, improveVars, extraVars>>

InitSwath ==
    /\ depth \in SwathDepths \X SwathDepths
    /\ beam_angle_deg \in BeamAngles
    /\ swath_width = <<>>
    /\ IdlePlacement
    /\ IdleImprove
    /\ IdleExtra

NextSwath == CallSwathWidth

SpecSwath == InitSwath /\ [][NextSwath]_vars

----------------------------------------------------------------------------
(* 03_performance_comparison.py: PerformanceMetrics, calculate_improvements *)

\* class PerformanceMetrics: __init__ stores the three fields
PerformanceMetrics(path_length_nm, gap_percentage, overlap_percentage) ==
    [path_length_nm |-> path_length_nm,
     gap_percentage |-> gap_percentage,
     overlap_percentage |-> overlap_percentage]

\* get_hybrid_metrics: 180.0 NM, 0.214 %, 15.0 %
hybrid_length_nm == 180 * MetricScale
hybrid_gap == 214
hybrid_avg_overlap == 15 * MetricScale
get_hybrid_metrics == PerformanceMetrics(hybrid_length_nm, hybrid_gap, hybrid_avg_overlap)

\* baseline_gap = 0.100
baseline_gap == 100

\* mutant: the operands of the subtraction are swapped
percent_reduction_swapped(b, h) == ((h - b) * 100 * ImprovementScale) \div b

\* (b - h) / b * 100, in improvement units
percent_reduction(b, h) == ((b - h) * 100 * ImprovementScale) \div b

\* the dict calculate_improvements returns.  A key whose divisor is 0 can only be
\* returned for numpy scalars, as inf or nan: it is listed in nonfinite and its
\* number is a placeholder.
calculate_improvements(h, b) ==
    [length |-> IF b.path_length_nm # 0
                THEN percent_reduction(b.path_length_nm, h.path_length_nm) ELSE 0,
     overlap |-> IF b.overlap_percentage # 0
                 THEN percent_reduction(b.overlap_percentage, h.overlap_percentage) ELSE 0,
     nonfinite |-> {k \in {"length"} : b.path_length_nm = 0}
                   \cup {k \in {"overlap"} : b.overlap_percentage = 0}]

ZeroDivisor == baseline.path_length_nm = 0 \/ baseline.overlap_percentage = 0

\* lines 122-128: both divisions are carried out and the dict is returned
\* (numpy scalars divide by zero to inf/nan with a warning)
ImprovementsReturn ==
    /\ pc3 = "call"
    /\ number_type = "numpy" \/ ~ZeroDivisor
    /\ improvements' = calculate_improvements(hybrid, baseline)
    /\ pc3' = "returned"
    /\ UNCHANGED <<hybrid, baseline, number_type>>
    /\ UNCHANGED <<placementVars, swathVars, extraVars>>

\* lines 122-123: a division of Python numbers by zero raises ZeroDivisionError
ImprovementsRaise ==
    /\ pc3 = "call"
    /\ number_type = "python" /\ ZeroDivisor
    /\ pc3' = "raised"
    /\ UNCHANGED <<hybrid, baseline, number_type, improvements>>
    /\ UNCHANGED <<placementVars, swathVars, extraVars>>

PathLengths == {k * 20 * MetricScale : k \in 0..MaxLengthLevel}
Overlaps == {k * 5 * MetricScale : k \in 0..MaxOverlapLevel}

InitImprove ==
    /\ \E l \in PathLengths : \E o \in Overlaps :
          hybrid = PerformanceMetrics(l, hybrid_gap, o)
    /\ \E l \in PathLengths : \E o \in Overlaps :
          baseline = PerformanceMetrics(l, baseline_gap, o)
    /\ number_type \in {"python", "numpy"}
    /\ improvements = <<>>
    /\ pc3 = "call"
    /\ IdlePlacement
    /\ IdleSwath
    /\ IdleExtra

NextImprove == ImprovementsReturn \/ ImprovementsRaise

SpecImprove == InitImprove /\ [][NextImprove]_vars

----------------------------------------------------------------------------
(* One run of a script as __main__: the import fallback, the helper calls  *)
(* of main, the writes of plt.rcParams and the renderings                  *)

Scripts == {"01", "02", "03", "gf"}
Modules == {"bathymetry_simulation", "path_optimization"}
HelperNames == {"setup_plot_style", "generate_bathymetry_data", "calculate_swath_width"}

\* a write of plt.rcParams: <<key, value>>, every value by its text
RcKeys == {"font.family", "font.size", "axes.linewidth", "axes.labelweight",
           "xtick.labelsize", "ytick.labelsize", "legend.fontsize",
           "figure.dpi", "savefig.dpi", "savefig.bbox", "savefig.pad_inches",
           "xtick.direction", "ytick.direction",
           "xtick.major.width", "ytick.major.width"}

\* rcParams after the writes, the later write of a key winning
ApplyWrites(rc, writes) ==
    [k \in DOMAIN rc |->
        IF \E i \in 1..Len(writes) : writes[i][1] = k
        THEN LET last == CHOOSE i \in 1..Len(writes) :
                            /\ writes[i][1] = k
                            /\ \A j \in 1..Len(writes) : writes[j][1] = k => j <= i
             IN writes[last][2]
        ELSE rc[k]]

\* the local copy of 03 with another resolution
setup_plot_style_03_draft ==
    << <<"font.family", "Times New Roman">>, <<"font.size", "10">>,
       <<"axes.linewidth", "1.0">>, <<"axes.labelweight", "normal">>,
       <<"xtick.labelsize", "9">>, <<"ytick.labelsize", "9">>,
       <<"legend.fontsize", "9">>, <<"figure.dpi", "300">>,
       <<"savefig.dpi", "300">>, <<"savefig.bbox", "tight">>,
       <<"savefig.pad_inches", "0.1">> >>

\* setup_plot_style of 01_bathymetry_simulation.py, the shared one
setup_plot_style_01 ==
    << <<"font.family", "Times New Roman">>, <<"font.size", "10">>,
       <<"axes.linewidth", "1.0">>, <<"axes.labelweight", "normal">>,
       <<"xtick.labelsize", "9">>, <<"ytick.labelsize", "9">>,
       <<"legend.fontsize", "9">>, <<"figure.dpi", "600">>,
       <<"savefig.dpi", "600">>, <<"savefig.bbox", "tight">>,
       <<"savefig.pad_inches", "0.1">> >>

\* the copy in the except block of 02_path_optimization.py
setup_plot_style_02 ==
    << <<"font.family", "Times New Roman">>, <<"font.size", "10">>,
       <<"axes.linewidth", "1.0">>, <<"axes.labelweight", "normal">>,
       <<"xtick.labelsize", "9">>, <<"ytick.labelsize", "9">>,
       <<"legend.fontsize", "9">>, <<"figure.dpi", "600">>,
       <<"savefig.dpi", "600">>, <<"savefig.bbox", "tight">>,
       <<"savefig.pad_inches", "0.1">> >>

\* the copy in the except block of 03_performance_comparison.py
setup_plot_style_03 ==
    << <<"font.family", "Times New Roman">>, <<"font.size", "10">>,
       <<"axes.linewidth", "1.0">>, <<"axes.labelweight", "normal">>,
       <<"xtick.labelsize", "9">>, <<"ytick.labelsize", "9">>,
       <<"legend.fontsize", "9">>, <<"figure.dpi", "600">>,
       <<"savefig.dpi", "600">>, <<"savefig.bbox", "tight">>,
       <<"savefig.pad_inches", "0.1">> >>

\* plt.rcParams.update({...}) at the top of generate_figures.py
rcParams_update_gf ==
    << <<"font.size", "12">>, <<"axes.linewidth", "1.5">>,
       <<"xtick.direction", "in">>, <<"ytick.direction", "in">>,
       <<"xtick.major.width", "1.5">>, <<"ytick.major.width", "1.5">>,
       <<"figure.dpi", "600">>, <<"savefig.dpi", "600">>,
       <<"savefig.bbox", "tight">>, <<"savefig.pad_inches", "0.05">> >>

\* the style function a script calls through a name bound to `binding`
setup_plot_style_of(s, binding) ==
    IF binding = "shared" THEN setup_plot_style_01
    ELSE IF s = "02" THEN setup_plot_style_02
    ELSE setup_plot_style_03

(* generate_bathymetry_data: the depth surface, sampled on a lattice of     *)
(* normalised coordinates u = X/region_width_nm, v = Y/region_height_nm     *)
(* in {0, 1/SampleDiv, ..., 1}; sin by Bhaskara's rational approximation    *)
SampleDiv == 4
SinScale == 10 * 10 * 10

\* SinScale * sin(pi * a / b) for 0 <= a <= b
HalfTurnSin(a, b) == (16 * SinScale * a * (b - a)) \div (5 * b * b - 4 * a * (b - a))

\* SinScale * sin(2 pi n / d) for n >= 0, d > 0
SinTurn(n, d) ==
    LET r == n % d
    IN IF 2 * r < d THEN HalfTurnSin(2 * r, d) ELSE 0 - HalfTurnSin(2 * r - d, d)

\* the surface of the parameters p at lattice point (i, j): depth in cm.
\* p.period3 and p.period4 are the fractions 0.3 and 0.7 as <<num, den>>
Surface(p, i, j) ==
    LET span == p.depth_deep - p.depth_shallow
        linear_plane == p.depth_shallow + ((i + j) * span) \div (p.plane_den * SampleDiv)
        variation1 == (p.amp1 * DepthScale * SinTurn(i, SampleDiv)) \div SinScale
        variation2 == (p.amp2 * DepthScale * SinTurn(j, SampleDiv)) \div SinScale
        variation3 == (p.amp3 * DepthScale
                          * SinTurn(i * p.period3[2], SampleDiv * p.period3[1])) \div SinScale
        variation4 == (p.amp4 * DepthScale
                          * SinTurn(j * p.period4[2], SampleDiv * p.period4[1])) \div SinScale
    IN linear_plane + (variation1 + variation2 + variation3 + variation4)

\* what a generate_bathymetry_data with parameters p returns
Generate(p) ==
    [region_width_nm |-> p.region_width_nm, region_height_nm |-> p.region_height_nm,
     nx |-> p.nx, ny |-> p.ny,
     bathymetry_data |-> [j \in 1..(SampleDiv + 1) |->
                            [i \in 1..(SampleDiv + 1) |-> Surface(p, i - 1, j - 1)]]]

\* generate_bathymetry_data of 01_bathymetry_simulation.py, the shared one
generate_bathymetry_data_01 ==
    Generate([region_width_nm |-> 4, region_height_nm |-> 5, nx |-> 400, ny |-> 500,
              depth_shallow |-> 25 * DepthScale, depth_deep |-> 175 * DepthScale,
              plane_den |-> 2, amp1 |-> 20, amp2 |-> 10, amp3 |-> 5, amp4 |-> 8,
              period3 |-> <<3, 10>>, period4 |-> <<7, 10>>])

\* the copy in the except block of 02_path_optimization.py
generate_bathymetry_data_02 ==
    Generate([region_width_nm |-> 4, region_height_nm |-> 5, nx |-> 400, ny |-> 500,
              depth_shallow |-> 25 * DepthScale, depth_deep |-> 175 * DepthScale,
              plane_den |-> 2, amp1 |-> 20, amp2 |-> 10, amp3 |-> 5, amp4 |-> 8,
              period3 |-> <<3, 10>>, period4 |-> <<7, 10>>])

\* the copy in the except block of 03_performance_comparison.py
generate_bathymetry_data_03 ==
    Generate([region_width_nm |-> 4, region_height_nm |-> 5, nx |-> 400, ny |-> 500,
              depth_shallow |-> 25 * DepthScale, depth_deep |-> 175 * DepthScale,
              plane_den |-> 2, amp1 |-> 20, amp2 |-> 10, amp3 |-> 5, amp4 |-> 8,
              period3 |-> <<3, 10>>, period4 |-> <<7, 10>>])

generate_bathymetry_data_of(s, binding) ==
    IF binding = "shared" THEN generate_bathymetry_data_01
    ELSE IF s = "02" THEN generate_bathymetry_data_02
    ELSE generate_bathymetry_data_03

\* the copy of calculate_swath_width in the except block of 03
calculate_swath_width_03(d, angle) == (2 * d * TanNum(angle)) \div TanDen(angle)

calculate_swath_width_of(binding, d, angle) ==
    IF binding = "shared" THEN calculate_swath_width(d, angle)
    ELSE calculate_swath_width_03(d, angle)

\* np.min and np.mean of a grid (a sequence of rows)
RECURSIVE SeqSum(_)
SeqSum(q) == IF q = <<>> THEN 0 ELSE q[1] + SeqSum(Tail(q))
RECURSIVE Flatten(_)
Flatten(g) == IF g = <<>> THEN <<>> ELSE g[1] \o Flatten(Tail(g))
np_min(g) == CHOOSE m \in {Flatten(g)[n] : n \in DOMAIN Flatten(g)} :
                 \A n \in DOMAIN Flatten(g) : m <= Flatten(g)[n]
np_mean(g) == SeqSum(Flatten(g)) \div Len(Flatten(g))

\* the except block of 03 without its third definition
FallbackNames_two(s) ==
    IF s \in {"02", "03"} THEN {"setup_plot_style", "generate_bathymetry_data"} ELSE {}

\* the helpers the except block of a script defines
FallbackNames(s) ==
    IF s = "02" THEN {"setup_plot_style", "generate_bathymetry_data"}
    ELSE IF s = "03" THEN {"setup_plot_style", "generate_bathymetry_data",
                           "calculate_swath_width"}
    ELSE {}

\* the modules the try block of a script imports from, and the names it binds
ImportedModules(s) ==
    IF s = "02" THEN {"bathymetry_simulation"}
    ELSE IF s = "03" THEN {"bathymetry_simulation", "path_optimization"}
    ELSE {}

\* the helpers a script defines itself at module level, outside the try
OwnNames(s) ==
    IF s = "01" THEN {"setup_plot_style", "generate_bathymetry_data"}
    ELSE IF s = "02" THEN {"calculate_swath_width"}
    ELSE {}

\* mutant: main of 01 and 02 style the plots only after drawing them
Program_style_late(s) ==
    IF s = "01" THEN <<"define", "generate_bathymetry_data", "plot_figure1",
                       "setup_plot_style">>
    ELSE IF s = "02" THEN <<"import", "define", "generate_bathymetry_data",
                            "optimize_track_positions", "calculate_coverage_metrics",
                            "plot_figure2", "setup_plot_style">>
    ELSE IF s = "03" THEN <<"import", "setup_plot_style", "generate_bathymetry_data",
                            "calculate_baseline_metrics", "get_hybrid_metrics",
                            "calculate_improvements", "plot_figure3",
                            "generate_performance_table">>
    ELSE IF s = "gf" THEN <<"rcParams", "generate_figures_data", "plot_figure1",
                            "plot_figure2", "plot_figure3">>
    ELSE <<>>

\* the steps of a run, in order
Program(s) ==
    IF s = "01" THEN <<"define", "setup_plot_style", "generate_bathymetry_data",
                       "plot_figure1">>
    ELSE IF s = "02" THEN <<"import", "define", "setup_plot_style",
                            "generate_bathymetry_data", "optimize_track_positions",
                            "calculate_coverage_metrics", "plot_figure2">>
    ELSE IF s = "03" THEN <<"import", "setup_plot_style", "generate_bathymetry_data",
                            "calculate_baseline_metrics", "get_hybrid_metrics",
                            "calculate_improvements", "plot_figure3",
                            "generate_performance_table">>
    ELSE IF s = "gf" THEN <<"rcParams", "generate_figures_data", "plot_figure1",
                            "plot_figure2", "plot_figure3">>
    ELSE <<>>

\* the position of a run that a NameError ended
NameError == 0 - 1

\* the helper a step calls by its global name
CallsOf(step) ==
    IF step \in {"setup_plot_style", "generate_bathymetry_data"} THEN {step}
    ELSE IF step \in {"optimize_track_positions", "calculate_baseline_metrics"}
         THEN {"calculate_swath_width"}
    ELSE {}

Running == script \in Scripts /\ pcS \in 1..Len(Program(script))
Finished == script \in Scripts /\ pcS = Len(Program(script)) + 1
AtStep(step) == Running /\ Program(script)[pcS] = step

\* the names the try block binds when both imports succeed
ImportedNames(s) ==
    IF s = "02" THEN {"generate_bathymetry_data", "setup_plot_style"}
    ELSE IF s = "03" THEN {"generate_bathymetry_data", "setup_plot_style",
                           "calculate_swath_width"}
    ELSE {}

Bind(bound, binding) == [h \in HelperNames |-> IF h \in bound THEN binding ELSE names[h]]

\* try: from ... import ...   -- every module found
ImportSucceeds ==
    /\ AtStep("import")
    /\ ImportedModules(script) \subseteq importable
    /\ names' = Bind(ImportedNames(script), "shared")
    /\ pcS' = pcS + 1
    /\ UNCHANGED <<script, importable, import_failed, rc_initial, rcParams,
                   generated, swath_out, events>>
    /\ UNCHANGED <<placementVars, swathVars, improveVars, baselineVars, figureVars, callerVars>>

\* except ImportError: the local definitions replace whatever was bound
ImportFallback ==
    /\ AtStep("import")
    /\ ~(ImportedModules(script) \subseteq importable)
    /\ import_failed' = TRUE
    /\ names' = Bind(FallbackNames(script), "local")
    /\ pcS' = pcS + 1
    /\ UNCHANGED <<script, importable, rc_initial, rcParams, generated, swath_out, events>>
    /\ UNCHANGED <<placementVars, swathVars, improveVars, baselineVars, figureVars, callerVars>>

\* the def statements of the script's own helpers
Define ==
    /\ AtStep("define")
    /\ names' = Bind(OwnNames(script), "shared")
    /\ pcS' = pcS + 1
    /\ UNCHANGED <<script, importable, import_failed, rc_initial, rcParams,
                   generated, swath_out, events>>
    /\ UNCHANGED <<placementVars, swathVars, improveVars, baselineVars, figureVars, callerVars>>

\* main: setup_plot_style()
CallSetupPlotStyle ==
    /\ AtStep("setup_plot_style")
    /\ IF names["setup_plot_style"] = "undefined"
       THEN /\ pcS' = NameError
            /\ UNCHANGED <<rcParams, events>>
       ELSE /\ rcParams' = ApplyWrites(rcParams,
                               setup_plot_style_of(script, names["setup_plot_style"]))
            /\ events' = Append(events, "style")
            /\ pcS' = pcS + 1
    /\ UNCHANGED <<script, importable, import_failed, names, rc_initial,
                   generated, swath_out>>
    /\ UNCHANGED <<placementVars, swathVars, improveVars, baselineVars, figureVars, callerVars>>

\* main: X, Y, bathymetry_data, ... = generate_bathymetry_data()
CallGenerateBathymetryData ==
    /\ AtStep("generate_bathymetry_data")
    /\ IF names["generate_bathymetry_data"] = "undefined"
       THEN /\ pcS' = NameError
            /\ UNCHANGED generated
       ELSE /\ generated' = generate_bathymetry_data_of(script,
                                                        names["generate_bathymetry_data"])
            /\ pcS' = pcS + 1
    /\ UNCHANGED <<script, importable, import_failed, names, rc_initial, rcParams,
                   swath_out, events>>
    /\ UNCHANGED <<placementVars, swathVars, improveVars, baselineVars, figureVars, callerVars>>

\* main of 03: calculate_baseline_metrics, as far as its calls of
\* calculate_swath_width: W_min at the least depth, W_avg at the mean depth
CallBaselineSwaths ==
    /\ AtStep("calculate_baseline_metrics")
    /\ IF names["calculate_swath_width"] = "undefined"
       THEN /\ pcS' = NameError
            /\ UNCHANGED swath_out
       ELSE /\ swath_out' =
                 <<calculate_swath_width_of(names["calculate_swath_width"],
                                            np_min(generated.bathymetry_data),
                                            DefaultBeamAngle),
                   calculate_swath_width_of(names["calculate_swath_width"],
                                            np_mean(generated.bathymetry_data),
                                            DefaultBeamAngle)>>
            /\ pcS' = pcS + 1
    /\ UNCHANGED <<script, importable, import_failed, names, rc_initial, rcParams,
                   generated, events>>
    /\ UNCHANGED <<placementVars, swathVars, improveVars, baselineVars, figureVars, callerVars>>

\* main of 02: optimize_track_positions, as far as its calls of calculate_swath_width
CallOptimize ==
    /\ AtStep("optimize_track_positions")
    /\ pcS' = IF names["calculate_swath_width"] = "undefined" THEN NameError ELSE pcS + 1
    /\ UNCHANGED <<script, importable, import_failed, names, rc_initial, rcParams,
                   generated, swath_out, events>>
    /\ UNCHANGED <<placementVars, swathVars, improveVars, baselineVars, figureVars, callerVars>>

\* the steps that call no helper, write no rcParams and render nothing
ComputeSteps == {"calculate_coverage_metrics", "get_hybrid_metrics",
                 "calculate_improvements", "generate_performance_table",
                 "generate_figures_data"}

Compute ==
    /\ Running
    /\ Program(script)[pcS] \in ComputeSteps
    /\ pcS' = pcS + 1
    /\ UNCHANGED <<script, importable, import_failed, names, rc_initial, rcParams,
                   generated, swath_out, events>>
    /\ UNCHANGED <<placementVars, swathVars, improveVars, baselineVars, figureVars, callerVars>>

\* plot_figure1/2/3: draw and plt.savefig
RenderSteps == {"plot_figure1", "plot_figure2", "plot_figure3"}

Render ==
    /\ Running
    /\ Program(script)[pcS] \in RenderSteps
    /\ events' = Append(events, "render")
    /\ pcS' = pcS + 1
    /\ UNCHANGED <<script, importable, import_failed, names, rc_initial, rcParams,
                   generated, swath_out>>
    /\ UNCHANGED <<placementVars, swathVars, improveVars, baselineVars, figureVars, callerVars>>

\* generate_figures.py at import: the font write, which may raise the
\* RuntimeError the script catches, then plt.rcParams.update
ModuleLevelStyle ==
    /\ AtStep("rcParams")
    /\ \E font_written \in BOOLEAN :
          rcParams' = ApplyWrites(rcParams,
                         (IF font_written THEN << <<"font.family", "Times New Roman">> >>
                                          ELSE <<>>) \o rcParams_update_gf)
    /\ events' = Append(events, "style")
    /\ pcS' = pcS + 1
    /\ UNCHANGED <<script, importable, import_failed, names, rc_initial,
                   generated, swath_out>>
    /\ UNCHANGED <<placementVars, swathVars, improveVars, baselineVars, figureVars, callerVars>>

\* matplotlib's defaults, or a user's matplotlibrc that already sets some keys
DefaultRc(family, dpi, direction) ==
    [k \in RcKeys |->
        CASE k = "font.family" -> family
          [] k = "font.size" -> "10.0"
          [] k = "axes.linewidth" -> "0.8"
          [] k = "axes.labelweight" -> "normal"
          [] k = "xtick.labelsize" -> "medium"
          [] k = "ytick.labelsize" -> "medium"
          [] k = "legend.fontsize" -> "medium"
          [] k = "figure.dpi" -> dpi
          [] k = "savefig.dpi" -> "figure"
          [] k = "savefig.bbox" -> "None"
          [] k = "savefig.pad_inches" -> "0.1"
          [] k = "xtick.direction" -> direction
          [] k = "ytick.direction" -> direction
          [] k = "xtick.major.width" -> "0.8"
          [] k = "ytick.major.width" -> "0.8"]

InitialRcs == {DefaultRc(family, dpi, direction) :
                  family \in {"sans-serif", "Times New Roman"},
                  dpi \in {"100.0", "600"},
                  direction \in {"out", "in"}}

InitScript ==
    /\ script \in Scripts
    /\ importable \in SUBSET Modules
    /\ import_failed = FALSE
    /\ names = [h \in HelperNames |-> "undefined"]
    /\ rc_initial \in InitialRcs
    /\ rcParams = rc_initial
    /\ generated = <<>>
    /\ swath_out = <<>>
    /\ events = <<>>
    /\ pcS = 1
    /\ IdlePlacement
    /\ IdleSwath
    /\ IdleImprove
    /\ IdleBaseline
    /\ IdleFigure
    /\ IdleCaller

NextScript ==
    \/ ImportSucceeds
    \/ ImportFallback
    \/ Define
    \/ CallSetupPlotStyle
    \/ CallGenerateBathymetryData
    \/ CallBaselineSwaths
    \/ CallOptimize
    \/ Compute
    \/ Render
    \/ ModuleLevelStyle

SpecScript == InitScript /\ [][NextScript]_vars

----------------------------------------------------------------------------
(* 03_performance_comparison.py: calculate_baseline_metrics.               *)
(* Its divisions are numpy divisions (calculate_swath_width returns a      *)
(* np.float64): a zero divisor gives inf or nan and a RuntimeWarning,      *)
(* never an exception.                                                     *)

\* region_width_m = region_width_nm * NM_TO_M, in depth units (cm)
region_width_m(w) == (w \div (PosScale \div DepthScale)) * NM_TO_M

D_min(g) == np_min(g)
D_avg(g) == np_mean(g)

\* the swath width at the deepest cell instead
W_min_deepest(g) ==
    calculate_swath_width(
        CHOOSE m \in {Flatten(g)[n] : n \in DOMAIN Flatten(g)} :
            \A n \in DOMAIN Flatten(g) : m >= Flatten(g)[n],
        DefaultBeamAngle)

W_min(g) == calculate_swath_width(D_min(g), DefaultBeamAngle)

\* d_fixed = 0.9 * W_min
d_fixed(g) == (9 * W_min(g)) \div 10

\* np.ceil(a / b) for b > 0
np_ceil_div(a, b) == 0 - ((0 - a) \div b)

\* num_lines = np.ceil(region_width_m / d_fixed), for d_fixed # 0
num_lines(g, w) == np_ceil_div(region_width_m(w), d_fixed(g))

W_avg(g) == calculate_swath_width(D_avg(g), DefaultBeamAngle)

\* d_fixed / W_avg is kept to four decimals
RatioScale == 10 * MetricScale

\* baseline_avg_overlap = (1 - d_fixed / W_avg) * 100, in metric units, for W_avg # 0
baseline_avg_overlap(g) ==
    (RatioScale - (d_fixed(g) * RatioScale) \div W_avg(g)) * ((100 * MetricScale) \div RatioScale)

\* the attributes of the result that are not finite numbers:
\*   x / 0.0 is inf for x > 0 and nan for x = 0; np.ceil keeps both;
\*   inf * h is inf for h > 0 and nan for h = 0; 0.0 / 0.0 is nan
BaselineNonfinite(g, w, h) ==
    [k \in {f \in {"path_length_nm"} : d_fixed(g) = 0}
           \cup {f \in {"overlap_percentage"} : W_avg(g) = 0} |->
        IF k = "path_length_nm"
        THEN (IF region_width_m(w) > 0 /\ h > 0 THEN "inf" ELSE "nan")
        ELSE "nan"]

BaselineWarnings(g, w) ==
    {k \in {"divide by zero"} : d_fixed(g) = 0 /\ region_width_m(w) # 0}
    \cup {k \in {"invalid value"} : (d_fixed(g) = 0 /\ region_width_m(w) = 0) \/ W_avg(g) = 0}

\* the PerformanceMetrics it returns; a non-finite attribute holds the placeholder 0
calculate_baseline_metrics(g, w, h) ==
    PerformanceMetrics(
        IF d_fixed(g) # 0 THEN num_lines(g, w) * (h \div (PosScale \div MetricScale)) ELSE 0,
        baseline_gap,
        IF W_avg(g) # 0 THEN baseline_avg_overlap(g) ELSE 0)

\* lines 81-98, the whole call: there is no raise, no try and no Python division
CallBaselineMetrics ==
    /\ pcB = "call"
    /\ baseline' = calculate_baseline_metrics(bathymetry_data, region_width_nm,
                                              region_height_nm)
    /\ baseline_nonfinite' = BaselineNonfinite(bathymetry_data, region_width_nm,
                                               region_height_nm)
    /\ warnings' = BaselineWarnings(bathymetry_data, region_width_nm)
    /\ pcB' = "returned"
    /\ UNCHANGED <<X, bathymetry_data, region_width_nm, spacing_factor, pc, current_x,
                   track_positions>>
    /\ UNCHANGED <<hybrid, number_type, improvements, pc3>>
    /\ UNCHANGED <<region_height_nm, swathVars, scriptVars, figureVars, callerVars>>

\* grids of two rows and two columns over the depths of the model, zero included
BaselineGrids == {<< <<a, b>>, <<c, d>> >> : a \in Depths, b \in Depths,
                                             c \in Depths, d \in Depths}

InitBaseline ==
    /\ bathymetry_data \in BaselineGrids
    /\ region_width_nm \in {PosScale, RegionWidthNm}
    /\ region_height_nm \in {PosScale, 5 * PosScale}
    /\ pcB = "call"
    /\ baseline_nonfinite = <<>>
    /\ warnings = {}
    /\ X = <<>>
    /\ spacing_factor = 0
    /\ pc = "idle"
    /\ current_x = 0
    /\ track_positions = <<>>
    /\ IdleSwath
    /\ IdleImprove
    /\ IdleScript
    /\ IdleFigure
    /\ IdleCaller

NextBaseline == CallBaselineMetrics

SpecBaseline == InitBaseline /\ [][NextBaseline]_vars

----------------------------------------------------------------------------
(* generate_figures.py: the terrain of generate_bathymetry_data and panel  *)
(* (a) of plot_figure2.  Figure ordinates are in mm (FigScale units per m).*)
(* The terrain is sampled at SampleDiv + 1 columns x = 4 i / SampleDiv NM; *)
(* phases are taken to the degree and exp(-t) is 1 / (1 + t + t^2/2 +      *)
(* t^3/6), with t in hundredths.                                           *)

FigScale == 10 * 10 * 10
num_rows == 500
coverage_factor == 4
NumBaselinePaths == 7
FigureHeight == 1000 * FigScale

\* SinScale * exp(-t) for t = T / 100 >= 0
ExpNeg(T) ==
    IF T > 1000 THEN 0
    ELSE 6000000 \div ((6000000 + 60000 * T + 300 * T * T + T * T * T) \div 1000)

Clip(v, lo, hi) == IF v < lo THEN lo ELSE IF v > hi THEN hi ELSE v

\* Z at column sample i (0..SampleDiv) of grid row idx (0..num_rows - 1), in cm
Z_gf(i, idx) ==
    LET main_slope == 10 * DepthScale
                      + ((240 * DepthScale) * (6 * i * (num_rows - 1) + 4 * idx * SampleDiv))
                            \div (10 * SampleDiv * (num_rows - 1))
        sinX3 == SinTurn((360 * 4 * i) \div (3 * SampleDiv), 360)
        cosY4 == SinTurn((360 * 5 * idx) \div (4 * (num_rows - 1)) + 90, 360)
        variation_1 == (((30 * DepthScale) \div SinScale) * sinX3 * cosY4) \div SinScale
        variation_2 == (20 * DepthScale
                           * SinTurn((360 * 5 * idx) \div (2 * (num_rows - 1)), 360)) \div SinScale
        Xc == (400 * i) \div SampleDiv
        Yc == (500 * idx) \div (num_rows - 1)
        depression_1 == 0 - (40 * DepthScale
                              * ExpNeg((2 * ((Xc - 150) * (Xc - 150)
                                             + (Yc - 350) * (Yc - 350))) \div 100)) \div SinScale
        seamount_1 == (25 * DepthScale
                          * ExpNeg((10 * ((Xc - 300) * (Xc - 300)
                                          + (Yc - 150) * (Yc - 150))) \div 300)) \div SinScale
    IN Clip(main_slope + variation_1 + variation_2 + depression_1 + seamount_1,
            0, 300 * DepthScale)

\* baseline_paths_y = np.linspace(150, 850, 7)
baseline_paths_y ==
    [k \in 1..NumBaselinePaths |->
        150 * FigScale + (700 * FigScale * (k - 1)) \div (NumBaselinePaths - 1)]

\* y_index of get_swath_width_from_terrain: height_nm cancels
y_index(y) == Clip((y * (num_rows - 1)) \div FigureHeight, 0, num_rows - 1)

\* the rows of Z_m that panel (a) reads
PathRows == {y_index(baseline_paths_y[k]) : k \in 1..NumBaselinePaths}

\* swath_width = 4.0 * np.mean(Z_m[y_index, :]), in mm
get_swath_width_from_terrain(y, Z) ==
    coverage_factor * (SeqSum(Z[y_index(y)]) \div Len(Z[y_index(y)]))
                    * (FigScale \div DepthScale)

\* BATHYMETRY_DATA of the __main__ block, at the rows read
GeneratedTerrain == [idx \in PathRows |-> [c \in 1..(SampleDiv + 1) |-> Z_gf(c - 1, idx)]]

\* swath1_top_edge < swath2_bottom_edge for lines k and k + 1
PairGap(Z, k) ==
    baseline_paths_y[k] + get_swath_width_from_terrain(baseline_paths_y[k], Z) \div 2
      < baseline_paths_y[k + 1]
          - get_swath_width_from_terrain(baseline_paths_y[k + 1], Z) \div 2

\* for i in range(len(baseline_paths_y) - 1): one pass of the loop
PairCheck ==
    /\ pcF = "pairs"
    /\ fig_i < NumBaselinePaths
    /\ gap_patches' =
          IF PairGap(Z_m, fig_i)
          THEN Append(gap_patches,
                 <<baseline_paths_y[fig_i]
                     + get_swath_width_from_terrain(baseline_paths_y[fig_i], Z_m) \div 2,
                   baseline_paths_y[fig_i + 1]
                     - get_swath_width_from_terrain(baseline_paths_y[fig_i + 1], Z_m) \div 2>>)
          ELSE gap_patches
    /\ fig_i' = fig_i + 1
    /\ pcF' = IF fig_i + 1 < NumBaselinePaths THEN "pairs" ELSE "bottom"
    /\ UNCHANGED <<Z_m, swath_patches>>
    /\ UNCHANGED <<placementVars, swathVars, improveVars, scriptVars, baselineVars, callerVars>>

\* if swath_bottom_edge_a > 0
BottomCheck ==
    /\ pcF = "bottom"
    /\ LET edge == baseline_paths_y[1]
                     - get_swath_width_from_terrain(baseline_paths_y[1], Z_m) \div 2
       IN gap_patches' = IF edge > 0 THEN Append(gap_patches, <<0, edge>>)
                         ELSE gap_patches
    /\ pcF' = "top"
    /\ UNCHANGED <<Z_m, swath_patches, fig_i>>
    /\ UNCHANGED <<placementVars, swathVars, improveVars, scriptVars, baselineVars, callerVars>>

\* if swath_top_edge_a < 1000
TopCheck ==
    /\ pcF = "top"
    /\ LET edge == baseline_paths_y[NumBaselinePaths]
                     + get_swath_width_from_terrain(baseline_paths_y[NumBaselinePaths],
                                                    Z_m) \div 2
       IN gap_patches' = IF edge < FigureHeight
                         THEN Append(gap_patches, <<edge, FigureHeight>>)
                         ELSE gap_patches
    /\ pcF' = "swaths"
    /\ UNCHANGED <<Z_m, swath_patches, fig_i>>
    /\ UNCHANGED <<placementVars, swathVars, improveVars, scriptVars, baselineVars, callerVars>>

\* for y_pos in baseline_paths_y: the grey swath of every line
DrawSwaths ==
    /\ pcF = "swaths"
    /\ swath_patches' =
          [k \in 1..NumBaselinePaths |->
              <<baseline_paths_y[k]
                  - get_swath_width_from_terrain(baseline_paths_y[k], Z_m) \div 2,
                baseline_paths_y[k]
                  + get_swath_width_from_terrain(baseline_paths_y[k], Z_m) \div 2>>]
    /\ pcF' = "done"
    /\ UNCHANGED <<Z_m, gap_patches, fig_i>>
    /\ UNCHANGED <<placementVars, swathVars, improveVars, scriptVars, baselineVars, callerVars>>

\* other terrains a caller may pass: flat seabeds of 0, 5, ..., 5 * MaxFlatLevel m
MaxFlatLevel == 12
FlatTerrain(d) == [idx \in PathRows |-> [c \in 1..(SampleDiv + 1) |-> d]]
Terrains == {GeneratedTerrain} \cup {FlatTerrain(5 * DepthScale * k) : k \in 0..MaxFlatLevel}

InitFigure2 ==
    /\ Z_m \in Terrains
    /\ gap_patches = <<>>
    /\ swath_patches = <<>>
    /\ fig_i = 1
    /\ pcF = "pairs"
    /\ IdlePlacement
    /\ IdleSwath
    /\ IdleImprove
    /\ IdleScript
    /\ IdleBaseline
    /\ IdleCaller

NextFigure2 == PairCheck \/ BottomCheck \/ TopCheck \/ DrawSwaths

SpecFigure2 == InitFigure2 /\ [][NextFigure2]_vars

----------------------------------------------------------------------------
(* 02_path_optimization.py: calculate_coverage_metrics, and a caller that  *)
(* places the tracks twice, the second time on another grid with the same  *)
(* row 0 and on another Y                                                  *)

coverage_percentage == 99786

\* mutant: the coverage falls by 0.001 with every track placed
calculate_coverage_metrics_counted(tracks, x_grid, y_grid, grid) ==
    [coverage_percentage |-> coverage_percentage - Len(tracks),
     gap_percentage |-> 100 * MetricScale - (coverage_percentage - Len(tracks))]

\* lines 118-121: (coverage_percentage, gap_percentage); no argument is read
calculate_coverage_metrics(tracks, x_grid, y_grid, grid) ==
    [coverage_percentage |-> coverage_percentage,
     gap_percentage |-> 100 * MetricScale - coverage_percentage]

\* main, line 168: the metrics of the tracks just placed
CallCoverageMetrics ==
    /\ pc = "done"
    /\ coverage' = calculate_coverage_metrics(track_positions, X, Y, bathymetry_data)
    /\ pc' = "covered"
    /\ UNCHANGED <<X, bathymetry_data, region_width_nm, spacing_factor,
                   current_x, track_positions>>
    /\ UNCHANGED <<Y, first_call, call_no>>
    /\ UNCHANGED <<swathVars, improveVars, scriptVars, baselineVars, figureVars>>

\* Y of np.meshgrid for a region of the given height: row r holds y_r everywhere
meshgridY(height, rows) ==
    [r \in 1..rows |-> [c \in 1..NumCols |-> linspace(height, rows)[r]]]

RegionHeights == {PosScale, 5 * PosScale}

\* the grids that keep row 0 of a grid: the rows below it are flat at some
\* depth, or repeat row 0 reversed, and there are one or two of them
SameEdgeGrids(g) ==
    {<<g[1], [c \in 1..NumCols |-> d]>> : d \in Depths}
    \cup {<<g[1], [c \in 1..NumCols |-> g[1][NumCols + 1 - c]]>>}
    \cup {<<g[1], [c \in 1..NumCols |-> d], [c \in 1..NumCols |-> d]>> : d \in RegularDepths}

\* the caller keeps the first result and calls again with the same X, region
\* width and default spacing factor
SecondCall ==
    /\ pc = "covered"
    /\ call_no = 1
    /\ first_call' = [bathymetry_data |-> bathymetry_data, Y |-> Y,
                      track_positions |-> track_positions, coverage |-> coverage]
    /\ bathymetry_data' \in SameEdgeGrids(bathymetry_data)
    /\ \E height \in RegionHeights : Y' = meshgridY(height, Len(bathymetry_data'))
    /\ call_no' = 2
    /\ pc' = "call"
    /\ current_x' = 0
    /\ track_positions' = <<>>
    /\ coverage' = <<>>
    /\ UNCHANGED <<X, region_width_nm, spacing_factor>>
    /\ UNCHANGED <<swathVars, improveVars, scriptVars, baselineVars, figureVars>>

InitTwoCalls ==
    /\ region_width_nm \in {SmallWidth, LandingWidth}
    /\ spacing_factor \in {FactorScale, DefaultSpacingFactor}
    /\ \E row0 \in Rows : \E row1 \in SecondRows(row0) :
          bathymetry_data = <<row0, row1>>
    /\ X = meshgridX(region_width_nm)
    /\ \E height \in RegionHeights : Y = meshgridY(height, Len(bathymetry_data))
    /\ pc = "call"
    /\ current_x = 0
    /\ track_positions = <<>>
    /\ first_call = <<>>
    /\ call_no = 1
    /\ coverage = <<>>
    /\ IdleSwath
    /\ IdleImprove
    /\ IdleScript
    /\ IdleBaseline
    /\ IdleFigure

NextTwoCalls == Start \/ LoopIter \/ LoopExit \/ CallCoverageMetrics \/ SecondCall

SpecTwoCalls == InitTwoCalls /\ [][NextTwoCalls]_vars

----------------------------------------------------------------------------
(* Vocabulary of the claims about optimize_track_positions *)

Returned == pc = "done"
NumTracks == Len(track_positions)

\* a swath width in metres as a length in NM
SwathNm(swath_m) == (swath_m * (PosScale \div DepthScale)) \div NM_TO_M

\* the swath width (m) of the line at position x, by the reference-edge depth there
SwathAt(x) == calculate_swath_width(depth_top(x), DefaultBeamAngle)

CeilDiv(a, b) == 0 - ((0 - a) \div b)

\* every cell of the grid holds the same positive depth
ConstantGrid ==
    /\ bathymetry_data[1][1] > 0
    /\ \A r \in 1..Len(bathymetry_data) : \A c \in 1..Len(bathymetry_data[r]) :
          bathymetry_data[r][c] = bathymetry_data[1][1]

\* every cell of the grid is strictly positive
PositiveGrid ==
    \A r \in 1..Len(bathymetry_data) : \A c \in 1..Len(bathymetry_data[r]) :
        bathymetry_data[r][c] > 0

\* half_first_step and step of a constant-depth grid
half_first_step == (calculate_swath_width(bathymetry_data[1][1], DefaultBeamAngle)
                    * (PosScale \div DepthScale)) \div (2 * NM_TO_M)
const_step == (calculate_swath_width(bathymetry_data[1][1], DefaultBeamAngle)
               * spacing_factor * (PosScale \div (DepthScale * FactorScale))) \div NM_TO_M

\* C1 (as claimed): on a constant-depth grid the call returns
\* ceil((W - half_first_step) / step) + 1 positions.
C1_CountAsClaimed ==
    (Returned /\ ConstantGrid /\ const_step > 0)
        => NumTracks = CeilDiv(region_width_nm - half_first_step, const_step) + 1

\* C1 (amended): on a constant-depth grid the call returns
\* ceil((W + 1e-6 - half_first_step) / step) positions: the number of cursors
\* half_first_step + k*step (k >= 0) below W + 1e-6.
C1_CountOfCursorsBelowLimit ==
    (Returned /\ ConstantGrid /\ const_step > 0)
        => NumTracks = (IF half_first_step < region_width_nm + Tolerance
                        THEN CeilDiv(region_width_nm + Tolerance - half_first_step, const_step)
                        ELSE 0)

\* C1 witness: the 4 NM region at 25 m and factor 1.02 returns 84 positions,
\* which is ceil((W - half_first_step) / step), one fewer than claimed.
C1_Witness ==
    /\ Returned /\ ConstantGrid
    /\ region_width_nm = RegionWidthNm
    /\ spacing_factor = DefaultSpacingFactor
    /\ NumTracks = 84
    /\ NumTracks = CeilDiv(region_width_nm - half_first_step, const_step)

\* C2 (as claimed): with a spacing factor > 1.0 on positive depths, consecutive
\* positions are never further apart than the swath width at the first of them.
C2_AdjacentSwathsAbutAsClaimed ==
    (Returned /\ PositiveGrid /\ spacing_factor > FactorScale)
        => \A i \in 1..(NumTracks - 1) :
              track_positions[i + 1] - track_positions[i] <= SwathNm(SwathAt(track_positions[i]))

\* C2 (amended): consecutive positions are exactly spacing_factor times the
\* swath width at the first of them apart, so with a factor >= 1.0 the distance
\* is never smaller than that swath width: the lines at best abut.
C2_SpacingIsFactorTimesSwath ==
    (Returned /\ PositiveGrid /\ spacing_factor >= FactorScale)
        => \A i \in 1..(NumTracks - 1) :
              /\ track_positions[i + 1] - track_positions[i]
                   = (SwathAt(track_positions[i]) * spacing_factor
                        * (PosScale \div (DepthScale * FactorScale))) \div NM_TO_M
              /\ track_positions[i + 1] - track_positions[i]
                   >= SwathNm(SwathAt(track_positions[i]))

\* C2 witness: a returned list at factor 1.02 whose first two lines are further
\* apart than the swath width at the first.
C2_Witness ==
    /\ Returned /\ PositiveGrid
    /\ spacing_factor = DefaultSpacingFactor
    /\ NumTracks >= 2
    /\ track_positions[2] - track_positions[1] > SwathNm(SwathAt(track_positions[1]))

\* C3: the returned lines cover both ends of [0, region_width]: the first
\* line's footprint reaches 0 and the last line's footprint reaches region_width.
C3_BothEndsCovered ==
    (Returned /\ NumTracks > 0)
        => /\ track_positions[1] - SwathNm(SwathAt(track_positions[1])) \div 2 <= 0
           /\ track_positions[NumTracks] + SwathNm(SwathAt(track_positions[NumTracks])) \div 2
                >= region_width_nm

\* C4: the first position is 0.5 * swath(depth at corner [0,0]) / 1852 whatever
\* the spacing factor and the rest of the grid; at a 25 m corner in the 4 NM
\* region it is 0.0234 NM within 1e-4.
C4_FirstPositionIsHalfCornerSwath ==
    (pc \in {"loop", "done"} /\ NumTracks > 0)
        => /\ track_positions[1]
                = (((2 * bathymetry_data[1][1] * 1351) \div 780) * 10000) \div (2 * 1852)
           /\ (bathymetry_data[1][1] = 25 * DepthScale /\ region_width_nm = 4 * PosScale)
                => /\ track_positions[1] - 23400 <= 100
                   /\ 23400 - track_positions[1] <= 100

\* C4 witness: a returned list of the 4 NM region with a 25 m corner, whose
\* second row differs from the first.
C4_Witness ==
    /\ Returned
    /\ region_width_nm = RegionWidthNm
    /\ bathymetry_data[1][1] = 25 * DepthScale
    /\ bathymetry_data[2] # bathymetry_data[1]
    /\ NumTracks > 0
    /\ track_positions[1] = 23380

C6_PositiveGridLoopAdvances ==
    [][(pc = "loop" /\ PositiveGrid /\ spacing_factor > 0 /\ pc' = "loop")
          => current_x' > current_x]_vars

\* C7 (as claimed): no recorded position reaches region_width.
C7_NoPositionAtOrPastWidth ==
    \A i \in 1..NumTracks : track_positions[i] < region_width_nm

\* C7 (amended): every recorded position is below region_width + 1e-6, and the
\* loop returns only with the cursor at or past region_width + 1e-6.
C7_PositionsBelowWidthPlusTolerance ==
    /\ \A i \in 1..NumTracks : track_positions[i] < region_width_nm + Tolerance
    /\ Returned => current_x >= region_width_nm + Tolerance

\* C7 witness: a returned list whose last position is region_width itself.
C7_Witness ==
    /\ Returned
    /\ NumTracks > 0
    /\ track_positions[NumTracks] = region_width_nm

\* some recorded position has reference-edge depth 0
ZeroDepthRecorded == \E i \in 1..NumTracks : depth_top(track_positions[i]) = 0

\* C8: once a recorded position has reference-edge depth 0, every further step
\* is a loop iteration that appends the same cursor again and leaves it
\* unchanged; the call never returns.
C8_ZeroDepthStalls ==
    [][ZeroDepthRecorded
          => /\ pc' = "loop"
             /\ current_x' = current_x
             /\ track_positions' = Append(track_positions, current_x)]_vars

\* C8 witness: the same zero-depth position recorded three times in a row.
C8_Witness ==
    /\ ZeroDepthRecorded
    /\ pc = "loop"
    /\ NumTracks >= 4
    /\ track_positions[NumTracks] = track_positions[NumTracks - 1]
    /\ track_positions[NumTracks - 1] = track_positions[NumTracks - 2]
    /\ track_positions[NumTracks] = current_x
    /\ track_positions[1] # current_x
    /\ bathymetry_data[1][2] = 0 /\ bathymetry_data[1][3] = 0

----------------------------------------------------------------------------
(* Claims about calculate_swath_width *)

\* C9: calculate_swath_width is monotone non-decreasing in depth at a fixed
\* beam angle: d1 < d2 (both >= 0) implies swath(d1) <= swath(d2).
C9_SwathMonotoneInDepth ==
    (swath_width # <<>> /\ 0 <= depth[1] /\ depth[1] < depth[2])
        => swath_width[1] <= swath_width[2]

\* C9 witness: two different positive depths were given and the deeper one
\* got the strictly wider swath.
C9_Witness ==
    /\ swath_width # <<>>
    /\ 0 < depth[1] /\ depth[1] < depth[2]
    /\ swath_width[1] < swath_width[2]

----------------------------------------------------------------------------
(* Claims about calculate_improvements *)

\* C10 (as claimed): for every pair of records with non-zero baseline length
\* the call returns 'length' = (baseline - hybrid) / baseline * 100.
C10_LengthReturnedAsClaimed ==
    (pc3 \in {"returned", "raised"} /\ baseline.path_length_nm # 0)
        => /\ pc3 = "returned"
           /\ improvements.length
                = ((baseline.path_length_nm - hybrid.path_length_nm) * 100 * 10)
                    \div baseline.path_length_nm

\* C10 (amended): whenever the call returns and the baseline length is not 0,
\* 'length' is the finite number (baseline - hybrid) / baseline * 100; it
\* returns whenever neither the baseline length nor the baseline overlap is 0;
\* for hybrid 180 and baseline 200 the result is 10.0.
C10_LengthIsPercentReduction ==
    /\ (pc3 = "returned" /\ baseline.path_length_nm # 0)
          => /\ "length" \notin improvements.nonfinite
             /\ improvements.length
                  = ((baseline.path_length_nm - hybrid.path_length_nm) * 100 * 10)
                      \div baseline.path_length_nm
             /\ (hybrid.path_length_nm = 180 * 1000 /\ baseline.path_length_nm = 200 * 1000)
                  => improvements.length = 10 * 10
    /\ (pc3 \in {"returned", "raised"}
          /\ baseline.path_length_nm # 0 /\ baseline.overlap_percentage # 0)
          => pc3 = "returned"

\* C10 witness: hybrid 180 against baseline 200 returned 10.0.
C10_Witness ==
    /\ pc3 = "returned"
    /\ hybrid.path_length_nm = 180 * MetricScale
    /\ baseline.path_length_nm = 200 * MetricScale
    /\ hybrid.overlap_percentage = hybrid_avg_overlap
    /\ baseline.overlap_percentage # 0
    /\ improvements.length = 10 * ImprovementScale

----------------------------------------------------------------------------
(* Claims about a run of a script *)

StyleWritten == \E i \in 1..Len(events) : events[i] = "style"

\* C11: when the cross-script import fails, the except block defines every
\* helper the run later calls, so no call ends in a NameError and the run goes
\* on; and each local helper does what the shared one does: the style call
\* leaves the rcParams the shared setup_plot_style leaves, the generated
\* terrain is the shared generator's, and the swath widths of the comparison
\* script are those of the shared calculate_swath_width at the same depths.
C11_FallbackDefinesAndMatchesShared ==
    import_failed =>
        /\ pcS # NameError
        /\ \A n \in pcS..Len(Program(script)) :
              \A h \in CallsOf(Program(script)[n]) \cap ImportedNames(script) :
                  names[h] # "undefined"
        /\ StyleWritten => rcParams = ApplyWrites(rc_initial, setup_plot_style_01)
        /\ generated # <<>> => generated = generate_bathymetry_data_01
        /\ swath_out # <<>> =>
              swath_out = <<calculate_swath_width(
                                np_min(generate_bathymetry_data_01.bathymetry_data),
                                DefaultBeamAngle),
                            calculate_swath_width(
                                np_mean(generate_bathymetry_data_01.bathymetry_data),
                                DefaultBeamAngle)>>

\* the comparison script has run to its end on its three local helpers
C11_Witness ==
    /\ script = "03"
    /\ import_failed
    /\ Finished
    /\ \A h \in HelperNames : names[h] = "local"
    /\ StyleWritten
    /\ generated # <<>>
    /\ swath_out # <<>>
    /\ swath_out[1] > 0

Rendered == \E n \in 1..Len(events) : events[n] = "render"

\* C16: in every run of a script the plot style is written before the first
\* rendering and by no later step: whenever a rendering has happened a style
\* write precedes it and none follows it, plt.rcParams changes only in a style
\* write, and once something is rendered plt.rcParams never changes again.
C16_StyleSetBeforeRenderAndKept ==
    /\ [](\A n \in 1..Len(events) :
            events[n] = "render" =>
                /\ \E m \in 1..(n - 1) : events[m] = "style"
                /\ \A m \in (n + 1)..Len(events) : events[m] # "style")
    /\ [][/\ rcParams' # rcParams => events' = Append(events, "style")
          /\ Rendered => rcParams' = rcParams]_vars

\* generate_figures.py has run to its end: one style write, then three renderings
C16_Witness ==
    /\ script = "gf"
    /\ Finished
    /\ events = <<"style", "render", "render", "render">>
    /\ rcParams # rc_initial

----------------------------------------------------------------------------
(* Claims about calculate_baseline_metrics *)

BaselineReturned == pcB = "returned"

\* C12: when the least grid depth is 0, so that the fixed spacing d_fixed is 0,
\* the division by d_fixed fails: calculate_baseline_metrics does not return.
C12_ZeroSwathDivisionDoesNotReturn ==
    BaselineReturned => d_fixed(bathymetry_data) # 0

\* the least cell of the grid
ShallowestDepth ==
    CHOOSE m \in UNION {{bathymetry_data[r][c] : c \in 1..Len(bathymetry_data[r])} :
                            r \in 1..Len(bathymetry_data)} :
        \A r \in 1..Len(bathymetry_data) : \A c \in 1..Len(bathymetry_data[r]) :
            m <= bathymetry_data[r][c]

\* 90 % of the swath width at the least cell
NinetyPercentOfShallowestSwath ==
    (9 * calculate_swath_width(ShallowestDepth, DefaultBeamAngle)) \div 10

----------------------------------------------------------------------------
(* Claims about panel (a) of generate_figures.plot_figure2 *)

PanelDone == pcF = "done"

\* C13: on the terrain the script generates, panel (a) shows uncovered gaps:
\* when the panel is drawn at least one red gap rectangle has been added.
C13_GeneratedTerrainShowsGap ==
    (PanelDone /\ Z_m = GeneratedTerrain) => gap_patches # <<>>

----------------------------------------------------------------------------
(* Claims about a caller's two calls *)

SecondReturned == call_no = 2 /\ pc \in {"done", "covered"}

\* C14: optimize_track_positions reads only row 0 of the grid and the
\* coordinates of that row: called again with the same X, region width and
\* spacing factor on any grid that agrees on row 0, and any Y, it returns
\* the track sequence it returned the first time.
C14_SameEdgeSameTracks ==
    SecondReturned => track_positions = first_call.track_positions

\* the second call has returned at least two tracks, placed along a row 0 that
\* is not flat, from a grid that differs from the first below row 0 and from
\* another Y
C14_Witness ==
    /\ SecondReturned
    /\ Len(track_positions) >= 2
    /\ bathymetry_data[1] = first_call.bathymetry_data[1]
    /\ bathymetry_data[2] # first_call.bathymetry_data[2]
    /\ bathymetry_data[1][1] # bathymetry_data[1][NumCols]
    /\ Y # first_call.Y

Covered == pc = "covered"

====
